---- MODULE Spec2Model ----
(***************************************************************************)
(* A model of UefiBuild/MuBuild/MuGit.py: the Repo handle, its derivation  *)
(* of cached git state (_update_from_git and the _get_* queries), the      *)
(* mutating operations (submodule, fetch, pull, checkout, clone_from,      *)
(* clone) and the ObjectDict attribute bag.                                *)
(*                                                                         *)
(* Text (the captured output of the runner, remote names, urls, paths) is  *)
(* a sequence of one-character strings, so that strip(), split() and       *)
(* lower() are computed character by character.  A Python value that may   *)
(* be None is None == <<>> or Some(v) == <<v>>.                            *)
(*                                                                         *)
(* RunCmd is the imported process runner.  Each call of it is one step of  *)
(* the model: the environment picks what the call does (an exit code and   *)
(* the captured output, or an exception), and the step runs the code that  *)
(* follows the call up to the next call of RunCmd.                         *)
(***************************************************************************)
EXTENDS Integers, Sequences, FiniteSets, TLC

VARIABLES
    repo,         \* the handle under observation: None, or Some(its fields)
    dirs,         \* the filesystem: the paths that are directories
    pc,           \* position of the running operation ("idle": none runs)
    op,           \* the operation running or last run, with its arguments
    calls,        \* the RunCmd invocations of that operation, in order
    return_buffer,\* the output the last invocation wrote to its outstream
    result,       \* what that operation returned or raised ("running")
    logs,         \* the logging records of that operation, in order
    remote_list,  \* _get_remotes: the names being enumerated
    idx,          \* _get_remotes: position of the for loop in remote_list
    new_remotes   \* _get_remotes: the bag being built

vars == <<repo, dirs, pc, op, calls, return_buffer, result, logs,
          remote_list, idx, new_remotes>>

-----------------------------------------------------------------------------
(* Bounds of the model *)

\* the longest list of remotes `git remote` prints
MaxRemotes == 2

\* the most queries of one derivation the external tool fails (a non-zero
\* exit code)
MaxFailures == 1

-----------------------------------------------------------------------------
(* Python values *)

None == <<>>
Some(v) == <<v>>

\* str.strip(): the whitespace it removes
IsSpace(c) == c \in {" ", "\n", "\t", "\r"}

RECURSIVE LStrip(_)
LStrip(s) == IF s = <<>> THEN s
             ELSE IF IsSpace(Head(s)) THEN LStrip(Tail(s)) ELSE s

RECURSIVE RStrip(_)
RStrip(s) == IF s = <<>> THEN s
             ELSE IF IsSpace(s[Len(s)]) THEN RStrip(SubSeq(s, 1, Len(s) - 1)) ELSE s

\* str.strip()
Strip(s) == RStrip(LStrip(s))

\* str.split(sep) for a one-character sep: "" splits into [""]
RECURSIVE Split(_, _)
Split(s, sep) ==
    IF \A i \in 1..Len(s) : s[i] # sep THEN <<s>>
    ELSE LET i == CHOOSE k \in 1..Len(s) :
                      s[k] = sep /\ \A j \in 1..(k - 1) : s[j] # sep
         IN <<SubSeq(s, 1, i - 1)>> \o Split(SubSeq(s, i + 1, Len(s)), sep)

\* sep.join(parts)
RECURSIVE Join(_, _)
Join(parts, sep) ==
    IF parts = <<>> THEN <<>>
    ELSE IF Len(parts) = 1 THEN parts[1]
    ELSE parts[1] \o sep \o Join(Tail(parts), sep)

LowerChar(c) ==
    CASE c = "T" -> "t" [] c = "R" -> "r" [] c = "U" -> "u" [] c = "E" -> "e"
      [] c = "F" -> "f" [] c = "A" -> "a" [] c = "L" -> "l" [] c = "S" -> "s"
      [] OTHER -> c

\* str.lower()
Lower(s) == [i \in 1..Len(s) |-> LowerChar(s[i])]

\* str.startswith(prefix)
StartsWith(s, prefix) ==
    Len(s) >= Len(prefix) /\ SubSeq(s, 1, Len(prefix)) = prefix

-----------------------------------------------------------------------------
(* ObjectDict: values is the private list __values of declared names, attrs *)
(* the attributes of the object                                             *)

ObjectDict == [values |-> <<>>, attrs |-> <<>>]

\* SetAttr with the test of the underscore left out: every key is declared
SetAttrDeclareAll(d, key, value) ==
    [values |-> Append(d.values, key), attrs |-> (key :> value) @@ d.attrs]

\* __setattr__ / set / setattr(obj, key, value)
SetAttr(d, key, value) ==
    [values |-> IF ~StartsWith(key, <<"_">>) THEN Append(d.values, key) ELSE d.values,
     attrs  |-> (key :> value) @@ d.attrs]

KeyUrl == <<"u", "r", "l">>
KeyCommit == <<"c", "o", "m", "m", "i", "t">>

-----------------------------------------------------------------------------
(* The environment: paths, refs, and what the runner can answer *)

Paths == {<<"p">>}
Urls == {<<"h">>}
Branches == {<<"b">>}
Commits == {<<"c">>}

\* the filesystem states: which paths are directories
FsStates == SUBSET Paths

\* names a line of `git remote` may hold
RemoteNames == {<<"o">>, <<"u", "p">>, <<"_", "x">>}

RECURSIVE Lists(_, _)
Lists(S, n) ==
    IF n = 0 THEN {<<>>}
    ELSE Lists(S, n - 1) \cup {Append(l, x) : l \in Lists(S, n - 1), x \in S}

\* `git remote` prints one name per line
RECURSIVE Unlines(_)
Unlines(names) ==
    IF names = <<>> THEN <<>> ELSE names[1] \o <<"\n">> \o Unlines(Tail(names))

\* git lists every remote once
RemoteOutputs ==
    {Unlines(l) : l \in {m \in Lists(RemoteNames, MaxRemotes) :
                             \A i, j \in DOMAIN m : m[i] = m[j] => i = j}}
BranchOutputs == {<<"m", "\n">>}
UrlOutputs == {<<" ", "u", "\n">>}
HeadOutputs == {<<"a", "1", "\n">>}
StatusOutputs == {<<>>, <<" ", "\n">>, <<" ", "M", " ", "f", "\n">>}
LogOutputs == {<<>>, <<"\n">>, <<"a", "1", " ", "m", "\n">>}
BareOutputs == {<<"T", "r", "u", "e", "\n">>, <<"f", "a", "l", "s", "e", "\n">>}

\* RunCmd returns an exit code with the output written to outstream, or raises
Exit(ret, out) == [raised |-> FALSE, ret |-> ret, out |-> out]
Raise == [raised |-> TRUE, ret |-> -1, out |-> <<>>]

\* the invocations so far that ended with a non-zero exit code
Failures == Cardinality({i \in DOMAIN calls : ~calls[i].raised /\ calls[i].ret # 0})

\* what a query can do: succeed with an output, fail with exit code 2 and no
\* output, or raise
RunnerResults(outs) ==
    {Exit(0, o) : o \in outs}
        \cup (IF Failures < MaxFailures THEN {Exit(2, <<>>)} ELSE {})
        \cup {Raise}

\* what fetch, pull, checkout, submodule and clone can do
OpResults == {Exit(0, <<>>), Exit(2, <<"e", "r", "r", "\n">>), Raise}

\* one invocation of RunCmd(cmd, workingdir=..., outstream=...)
Call(cmd, workingdir, r) ==
    [cmd |-> cmd, workingdir |-> workingdir, raised |-> r.raised, ret |-> r.ret]

\* a command line: the words of its format string, and the values substituted
\* for the placeholders ({0}, {1}, %s) in order
Cmd(words, subst) == [words |-> words, subst |-> subst]

BranchCmd == Cmd(<<"git", "rev-parse", "--abbrev-ref", "HEAD">>, <<>>)
RemoteCmd == Cmd(<<"git", "remote">>, <<>>)
\* UrlCmd with the argument left to its default, remote="origin"
UrlCmdOrigin(remote) ==
    Cmd(<<"git", "config", "--get", "remote.{0}.url">>, <<<<"o", "r", "i", "g", "i", "n">>>>)

UrlCmd(remote) == Cmd(<<"git", "config", "--get", "remote.{0}.url">>, <<remote>>)
HeadCmd == Cmd(<<"git", "rev-parse", "HEAD">>, <<>>)
StatusCmd == Cmd(<<"git", "status", "--short">>, <<>>)
LogCmd ==
    Cmd(<<"git", "log", "--branches", "--not", "--remotes", "--decorate", "--oneline">>, <<>>)
BareCmd == Cmd(<<"git", "rev-parse", "--is-bare-repository">>, <<>>)
FetchCmd == Cmd(<<"git", "fetch">>, <<>>)
PullCmd == Cmd(<<"git", "pull">>, <<>>)

\* submodule: flags = " ".join(args)
SubmoduleCmd(command, args) ==
    Cmd(<<"git", "submodule", "{0}", "{1}">>, <<command, Join(args, <<" ">>)>>)

\* checkout: the command line, None where cmd is never assigned
CheckoutCmd(branch, commit) ==
    IF branch # None THEN Some(Cmd(<<"git", "checkout", "%s">>, <<branch[1]>>))
    ELSE IF commit # None THEN Some(Cmd(<<"git", "checkout", "%s">>, <<commit[1]>>))
    ELSE None

\* CloneCmd with shallow not looked at
CloneCmdDeep(url, to_path, shallow) ==
    Cmd(<<"git", "clone", "--recurse-submodules", "%s", "%s">>, <<url, to_path>>)

\* clone_from: the command line
CloneCmd(url, to_path, shallow) ==
    IF shallow
    THEN Cmd(<<"git", "clone", "--depth", "1", "--shallow-submodules",
               "--recurse-submodules", "%s", "%s">>, <<url, to_path>>)
    ELSE Cmd(<<"git", "clone", "--recurse-submodules", "%s", "%s">>, <<url, to_path>>)

-----------------------------------------------------------------------------
(* Repo: the pure parts of its methods *)

\* __init__: the fields before _update_from_git
Defaults(path) ==
    [path |-> path, active_branch |-> None, bare |-> TRUE, exists |-> FALSE,
     remotes |-> ObjectDict, initalized |-> FALSE, url |-> None,
     dirty |-> FALSE, head |-> None]

\* IsDir with the test left out
IsDirUntested(fs, path) == TRUE

\* _update_from_git: os.path.isdir(self._path) in the filesystem fs
IsDir(fs, path) == path \in fs

\* _update_from_git: the assignment before the first query
EnterUpdate(r) == [r EXCEPT !.exists = TRUE]

\* _get_branch: the value returned for the captured output
GetBranch(out) == Some(Strip(out))

\* _get_remotes: the list the for loop runs over
RemoteList(out) == Split(Strip(out), "\n")

\* _get_url: the value returned for the captured output
GetUrl(out) == Strip(out)

\* _get_remotes: the body of the for loop, after _get_url returned urltext
AddRemote(bag, remote, urltext) ==
    SetAttr(bag, remote, SetAttr(ObjectDict, KeyUrl, urltext))

\* _get_head: the value returned for the captured output
GetHead(out) == Some(SetAttr(ObjectDict, KeyCommit, Strip(out)))

\* StatusDirty with no early return: the log is always asked
StatusDirtyNever(out) == FALSE

\* _get_dirty: the test after `git status --short` (True is returned at once)
StatusDirty(out) == Len(Strip(out)) > 0

\* LogDirty on the output as captured, not stripped
LogDirtyRaw(out) == Len(out) > 0

\* _get_dirty: the test after `git log`
LogDirty(out) == Len(Strip(out)) > 0

\* _get_bare: the value returned for the captured output
GetBare(out) == Lower(Strip(out)) = <<"t", "r", "u", "e">>

\* _get_initalized: os.path.isdir(os.path.join(self._path, ".git")), where
\* gitdir tells whether that directory is there
GetInitalized(gitdir) == gitdir

\* submodule, fetch, pull, checkout: the value returned for the exit code
OpReturn(ret) == IF ret # 0 THEN "False" ELSE "True"

\* a logging record
Log(level, text, args) == [level |-> level, text |-> text, args |-> args]

-----------------------------------------------------------------------------
(* The state machine *)

Self == repo[1]

\* an operation ended by an exception
Raised(res) == res \in {"raise RunCmd", "raise UnboundLocalError", "raise NameError"}

\* the operation runs _update_from_git
Derives(o) == o.name \in {"init", "clone_from", "refresh"}

NoLocals == /\ remote_list' = <<>>
            /\ idx' = 0
            /\ new_remotes' = ObjectDict

Init ==
    /\ repo = None
    /\ dirs \in FsStates
    /\ pc = "idle"
    /\ op = [name |-> "none"]
    /\ calls = <<>>
    /\ return_buffer = <<>>
    /\ result = "None"
    /\ logs = <<>>
    /\ remote_list = <<>>
    /\ idx = 0
    /\ new_remotes = ObjectDict

\* the filesystem changes under the program: a directory is made or removed
FsChange ==
    /\ pc = "idle"
    /\ \E x \in Paths :
          dirs' = IF x \in dirs THEN dirs \ {x} ELSE dirs \cup {x}
    /\ UNCHANGED <<repo, pc, op, calls, return_buffer, result, logs,
                   remote_list, idx, new_remotes>>

\* _update_from_git on the fields r, up to its first query; done is what the
\* operation returns when the path is no directory
BeginUpdate(r, fs, done) ==
    IF IsDir(fs, r.path)
    THEN /\ repo' = Some(EnterUpdate(r))
         /\ pc' = "branch"
         /\ result' = "running"
    ELSE /\ repo' = Some(r)
         /\ pc' = "idle"
         /\ result' = done

\* Repo(path)
Construct(path) ==
    /\ pc = "idle"
    /\ op' = [name |-> "init", path |-> path]
    /\ calls' = <<>>
    /\ return_buffer' = <<>>
    /\ logs' = <<>>
    /\ NoLocals
    /\ BeginUpdate(Defaults(path), dirs, "Repo")
    /\ UNCHANGED dirs

\* repo._update_from_git(): the refresh of a handle
Refresh ==
    /\ pc = "idle"
    /\ repo # None
    /\ op' = [name |-> "refresh"]
    /\ calls' = <<>>
    /\ return_buffer' = <<>>
    /\ logs' = <<>>
    /\ NoLocals
    /\ BeginUpdate(Self, dirs, "None")
    /\ UNCHANGED dirs

\* ExceptHandler ending in its `return False` in place of the raise: the
\* error is logged and the operation returns
ExceptHandlerReturn(c) ==
    /\ calls' = Append(calls, c)
    /\ return_buffer' = <<>>
    /\ logs' = logs \o <<[level |-> "error", text |-> "GIT ERROR for {0}", args |-> <<repo[1].path>>],
                         [level |-> "error", text |-> "{0}", args |-> <<>>]>>
    /\ result' = IF op.name = "refresh" THEN "False" ELSE "Repo"
    /\ pc' = "idle"
    /\ UNCHANGED <<repo, dirs, op, remote_list, idx, new_remotes>>

\* the except clause of _update_from_git, entered when the invocation c
\* raised: two error records, and the exception is raised again; an exception
\* that leaves __init__ leaves the caller without a handle
ExceptHandler(c) ==
    /\ calls' = Append(calls, c)
    /\ return_buffer' = <<>>
    /\ logs' = logs \o <<Log("error", "GIT ERROR for {0}", <<Self.path>>),
                         Log("error", "{0}", <<>>)>>
    /\ result' = "raise RunCmd"
    /\ pc' = "idle"
    /\ repo' = IF op.name = "refresh" THEN repo ELSE None
    /\ UNCHANGED <<dirs, op, remote_list, idx, new_remotes>>

\* a query that returned: the invocation c is recorded, its output captured
Returns(c, r) ==
    /\ calls' = Append(calls, c)
    /\ return_buffer' = r.out
    /\ UNCHANGED <<dirs, op, logs>>

\* self.active_branch = self._get_branch()
StepBranch ==
    /\ pc = "branch"
    /\ \E r \in RunnerResults(BranchOutputs) :
         LET c == Call(BranchCmd, Some(Self.path), r) IN
         IF r.raised THEN ExceptHandler(c)
         ELSE /\ Returns(c, r)
              /\ repo' = Some([Self EXCEPT !.active_branch = GetBranch(r.out)])
              /\ pc' = "remote"
              /\ UNCHANGED <<result, remote_list, idx, new_remotes>>

\* _get_remotes: `git remote` and the split of its output
StepRemote ==
    /\ pc = "remote"
    /\ \E r \in RunnerResults(RemoteOutputs) :
         LET c == Call(RemoteCmd, Some(Self.path), r) IN
         IF r.raised THEN ExceptHandler(c)
         ELSE /\ Returns(c, r)
              /\ remote_list' = RemoteList(r.out)
              /\ idx' = 1
              /\ new_remotes' = ObjectDict
              /\ pc' = "url"
              /\ UNCHANGED <<repo, result>>

\* _get_remotes: one turn of the for loop, _get_url(remote) and the setattr;
\* after the last turn self.remotes is assigned
StepUrl ==
    /\ pc = "url"
    /\ \E r \in RunnerResults(UrlOutputs) :
         LET remote == remote_list[idx]
             c == Call(UrlCmd(remote), Some(Self.path), r)
             bag == AddRemote(new_remotes, remote, GetUrl(r.out))
         IN
         IF r.raised THEN ExceptHandler(c)
         ELSE /\ Returns(c, r)
              /\ new_remotes' = bag
              /\ IF idx < Len(remote_list)
                 THEN /\ idx' = idx + 1
                      /\ pc' = "url"
                      /\ UNCHANGED repo
                 ELSE /\ idx' = idx
                      /\ pc' = "head"
                      /\ repo' = Some([Self EXCEPT !.remotes = bag])
              /\ UNCHANGED <<result, remote_list>>

\* self.head = self._get_head()
StepHead ==
    /\ pc = "head"
    /\ \E r \in RunnerResults(HeadOutputs) :
         LET c == Call(HeadCmd, Some(Self.path), r) IN
         IF r.raised THEN ExceptHandler(c)
         ELSE /\ Returns(c, r)
              /\ repo' = Some([Self EXCEPT !.head = GetHead(r.out)])
              /\ pc' = "status"
              /\ UNCHANGED <<result, remote_list, idx, new_remotes>>

\* _get_dirty: `git status --short`
StepStatus ==
    /\ pc = "status"
    /\ \E r \in RunnerResults(StatusOutputs) :
         LET c == Call(StatusCmd, Some(Self.path), r) IN
         IF r.raised THEN ExceptHandler(c)
         ELSE /\ Returns(c, r)
              /\ IF StatusDirty(r.out)
                 THEN /\ repo' = Some([Self EXCEPT !.dirty = TRUE])
                      /\ pc' = "bare"
                 ELSE /\ pc' = "log"
                      /\ UNCHANGED repo
              /\ UNCHANGED <<result, remote_list, idx, new_remotes>>

\* _get_dirty: `git log --branches --not --remotes`
StepLog ==
    /\ pc = "log"
    /\ \E r \in RunnerResults(LogOutputs) :
         LET c == Call(LogCmd, Some(Self.path), r) IN
         IF r.raised THEN ExceptHandler(c)
         ELSE /\ Returns(c, r)
              /\ repo' = Some([Self EXCEPT !.dirty = LogDirty(r.out)])
              /\ pc' = "bare"
              /\ UNCHANGED <<result, remote_list, idx, new_remotes>>

\* self.bare = self._get_bare(); self.initalized = self._get_initalized();
\* _update_from_git returns
StepBare ==
    /\ pc = "bare"
    /\ \E r \in RunnerResults(BareOutputs), gitdir \in BOOLEAN :
         LET c == Call(BareCmd, Some(Self.path), r) IN
         IF r.raised THEN ExceptHandler(c)
         ELSE /\ Returns(c, r)
              /\ repo' = Some([Self EXCEPT !.bare = GetBare(r.out),
                                           !.initalized = GetInitalized(gitdir)])
              /\ pc' = "idle"
              /\ result' = IF op.name = "refresh" THEN "None" ELSE "Repo"
              /\ UNCHANGED <<remote_list, idx, new_remotes>>

\* the body shared by submodule, fetch, pull and checkout: one RunCmd in the
\* handle's directory, then the test of its exit code; before holds the
\* records logged ahead of the call, level is the severity of the failure record
RunOp(cmd, before, level) ==
    \E r \in OpResults :
       /\ calls' = <<Call(cmd, Some(Self.path), r)>>
       /\ return_buffer' = r.out
       /\ IF r.raised
          THEN /\ result' = "raise RunCmd"
               /\ logs' = before
          ELSE /\ result' = OpReturn(r.ret)
               /\ logs' = IF r.ret # 0
                          THEN Append(before, Log(level, "{0}", <<Strip(r.out)>>))
                          ELSE before
       /\ NoLocals
       /\ UNCHANGED <<repo, dirs, pc>>

\* repo.fetch()
Fetch ==
    /\ pc = "idle"
    /\ repo # None
    /\ op' = [name |-> "fetch"]
    /\ RunOp(FetchCmd, <<>>, "error")

\* repo.pull()
Pull ==
    /\ pc = "idle"
    /\ repo # None
    /\ op' = [name |-> "pull"]
    /\ RunOp(PullCmd, <<>>, "error")

\* repo.submodule(command, *args)
Submodule(command, args) ==
    /\ pc = "idle"
    /\ repo # None
    /\ op' = [name |-> "submodule", command |-> command, args |-> args]
    /\ RunOp(SubmoduleCmd(command, args),
             <<Log("debug", "Calling command on submodule {0} with {1}",
                   <<command>> \o args)>>,
             "error")

\* repo.checkout(branch, commit): with neither given cmd is unbound at the
\* call of RunCmd
Checkout(branch, commit) ==
    /\ pc = "idle"
    /\ repo # None
    /\ op' = [name |-> "checkout", branch |-> branch, commit |-> commit]
    /\ LET cmd == CheckoutCmd(branch, commit) IN
       IF cmd = None
       THEN /\ result' = "raise UnboundLocalError"
            /\ calls' = <<>>
            /\ return_buffer' = <<>>
            /\ logs' = <<>>
            /\ NoLocals
            /\ UNCHANGED <<repo, dirs, pc>>
       ELSE RunOp(cmd[1], <<>>, "debug")

\* the path of the handle clone_from returns
CloneFromPath(to_path) == to_path

\* Repo.clone_from(url, to_path, shallow=shallow): RunCmd(cmd) with no working
\* directory and its exit code dropped, then Repo(to_path); a clone that
\* succeeded has made to_path
CloneFrom(url, to_path, shallow) ==
    /\ pc = "idle"
    /\ op' = [name |-> "clone_from", url |-> url, to_path |-> to_path, shallow |-> shallow]
    /\ logs' = <<Log("debug", "Cloning {0} into {1}", <<url, to_path>>)>>
    /\ NoLocals
    /\ \E r \in OpResults :
         /\ calls' = <<Call(CloneCmd(url, to_path, shallow), None, r)>>
         /\ return_buffer' = <<>>
         /\ dirs' = IF ~r.raised /\ r.ret = 0 THEN dirs \cup {to_path} ELSE dirs
         /\ IF r.raised
            THEN /\ result' = "raise RunCmd"
                 /\ repo' = None
                 /\ pc' = "idle"
            ELSE BeginUpdate(Defaults(CloneFromPath(to_path)), dirs', "Repo")

\* repo.clone(url, shallow): to_path is no name of its scope, and the first
\* statement, which formats it into the debug record, raises NameError
Clone(url, shallow) ==
    /\ pc = "idle"
    /\ repo # None
    /\ op' = [name |-> "clone", url |-> url, shallow |-> shallow]
    /\ result' = "raise NameError"
    /\ calls' = <<>>
    /\ return_buffer' = <<>>
    /\ logs' = <<>>
    /\ NoLocals
    /\ UNCHANGED <<repo, dirs, pc>>

\* the arguments the operations are called with
SubmoduleCommands == {<<"u", "p", "d", "a", "t", "e">>}
SubmoduleArgs == {<< <<"-", "-", "i", "n", "i", "t">>, <<"-", "f">> >>}
BranchArgs == {None} \cup {Some(b) : b \in Branches}
CommitArgs == {None} \cup {Some(c) : c \in Commits}

Next ==
    \/ FsChange
    \/ \E path \in Paths : Construct(path)
    \/ Refresh
    \/ StepBranch
    \/ StepRemote
    \/ StepUrl
    \/ StepHead
    \/ StepStatus
    \/ StepLog
    \/ StepBare
    \/ Fetch
    \/ Pull
    \/ \E command \in SubmoduleCommands, args \in SubmoduleArgs : Submodule(command, args)
    \/ \E branch \in BranchArgs, commit \in CommitArgs : Checkout(branch, commit)
    \/ \E url \in Urls, to_path \in Paths, shallow \in BOOLEAN : CloneFrom(url, to_path, shallow)
    \/ \E url \in Urls, shallow \in BOOLEAN : Clone(url, shallow)

Spec == Init /\ [][Next]_vars

-----------------------------------------------------------------------------
(* Vocabulary of the properties *)

\* the path the running or last derivation works on
OpPath ==
    IF op.name = "init" THEN op.path
    ELSE IF op.name = "clone_from" THEN op.to_path
    ELSE Self.path

\* the queries of the running or last derivation (clone_from issues its clone
\* first)
DerivCalls == IF op.name = "clone_from" THEN Tail(calls) ELSE calls

\* a derivation has run to its end and returned
Completed ==
    /\ Derives(op)
    /\ pc = "idle"
    /\ ~Raised(result)
    /\ DerivCalls # <<>>

\* the command lines, word by word
IsBranchQuery(c) == c.cmd = [words |-> <<"git", "rev-parse", "--abbrev-ref", "HEAD">>, subst |-> <<>>]
IsRemoteQuery(c) == c.cmd = [words |-> <<"git", "remote">>, subst |-> <<>>]
IsUrlQuery(c, remote) ==
    c.cmd = [words |-> <<"git", "config", "--get", "remote.{0}.url">>, subst |-> <<remote>>]
IsHeadQuery(c) == c.cmd = [words |-> <<"git", "rev-parse", "HEAD">>, subst |-> <<>>]
IsStatusQuery(c) == c.cmd = [words |-> <<"git", "status", "--short">>, subst |-> <<>>]
IsLogQuery(c) ==
    c.cmd = [words |-> <<"git", "log", "--branches", "--not", "--remotes",
                         "--decorate", "--oneline">>, subst |-> <<>>]
IsBareQuery(c) == c.cmd = [words |-> <<"git", "rev-parse", "--is-bare-repository">>, subst |-> <<>>]

\* the words w1 w2 stand next to each other in the command line
HasWords(c, w1, w2) ==
    \E i \in 1..(Len(c.cmd.words) - 1) : c.cmd.words[i] = w1 /\ c.cmd.words[i + 1] = w2
HasWord(c, w) == \E i \in DOMAIN c.cmd.words : c.cmd.words[i] = w

\* a step that constructs or refreshes a handle
StartsDerivation ==
    \/ \E path \in Paths : Construct(path)
    \/ Refresh
    \/ \E url \in Urls, to_path \in Paths, shallow \in BOOLEAN : CloneFrom(url, to_path, shallow)

\* trimmed text is empty: nothing but whitespace
Blank(text) == \A i \in DOMAIN text : text[i] \in {" ", "\n", "\t", "\r"}

-----------------------------------------------------------------------------
(* C1 *)

\* the construction-time values of the fields other than exists
HoldsDefaults(r) ==
    /\ r.active_branch = <<>>
    /\ r.bare = TRUE
    /\ r.initalized = FALSE
    /\ r.dirty = FALSE
    /\ r.remotes.values = <<>>
    /\ DOMAIN r.remotes.attrs = {}
    /\ r.head = <<>>

\* C1: a handle with exists = false holds the construction-time defaults in
\* every state; and a construction or a refresh that finds the path no
\* directory ends at once, having issued no invocation (clone_from: none but
\* its clone), with exists = false and the defaults (a refresh: with the
\* handle as it was)
C1_Unpopulated ==
    /\ [](repo # None /\ ~Self.exists => HoldsDefaults(Self))
    /\ [][(/\ StartsDerivation
           /\ OpPath' \notin dirs'
           /\ ~Raised(result'))
          => /\ pc' = "idle"
             /\ DerivCalls' = <<>>
             /\ repo' # None
             /\ op'.name = "refresh" => repo' = repo
             /\ op'.name # "refresh" => ~Self'.exists /\ HoldsDefaults(Self')]_vars

\* C1 witness: a refresh of an unpopulated handle has returned without an
\* invocation, and the handle holds its defaults
C1_Witness ==
    /\ pc = "idle"
    /\ op.name = "refresh"
    /\ result = "None"
    /\ repo # None
    /\ ~Self.exists
    /\ Self.path \notin dirs
    /\ calls = <<>>
    /\ HoldsDefaults(Self)

-----------------------------------------------------------------------------
(* C2 *)

\* the two error records of the except clause close the log
ErrorLogged ==
    /\ Len(logs) >= 2
    /\ logs[Len(logs) - 1] = [level |-> "error", text |-> "GIT ERROR for {0}", args |-> <<OpPath>>]
    /\ logs[Len(logs)].level = "error"

\* C2 as claimed: a derivation that has ended and in which a query failed, be
\* it by an exception of the runner or by a non-zero exit code, has ended at
\* that query, by raising, with the error logged
C2_Original ==
    (Derives(op) /\ pc = "idle") =>
        \A i \in DOMAIN DerivCalls :
            (DerivCalls[i].raised \/ DerivCalls[i].ret # 0)
                => /\ i = Len(DerivCalls)
                   /\ Raised(result)
                   /\ ErrorLogged

\* C2 amended: a derivation ends by raising exactly when its last query
\* raised an exception; that query is then its last, the error is logged and
\* the exception raised again.  A non-zero exit code alone is no failure: the
\* derivation goes on from the captured output and can return normally
C2_Amended ==
    Derives(op) =>
        /\ \A i \in DOMAIN DerivCalls :
              DerivCalls[i].raised
                  => /\ i = Len(DerivCalls)
                     /\ pc = "idle"
                     /\ result = "raise RunCmd"
                     /\ ErrorLogged
        /\ (Raised(result) /\ DerivCalls # <<>>) => DerivCalls[Len(DerivCalls)].raised
        /\ ~Raised(result) => \A i \in DOMAIN logs : logs[i].level # "error"

\* C2 witness: a refresh whose third query raised has ended by raising, with
\* the error logged
C2_Witness ==
    /\ pc = "idle"
    /\ op.name = "refresh"
    /\ Len(calls) = 3
    /\ calls[3].raised
    /\ result = "raise RunCmd"
    /\ ErrorLogged

-----------------------------------------------------------------------------
(* C3 *)

\* C3 as claimed, for the calls in which the runner itself raises nothing:
\* fetch, pull, checkout (whatever is given of branch and commit) and
\* submodule issue exactly one invocation, in the handle's directory, and
\* return True for exit code 0 and False otherwise, never raising; checkout
\* given both a branch and a commit checks out the branch
C3_Original ==
    (/\ op.name \in {"fetch", "pull", "checkout", "submodule"}
     /\ \A i \in DOMAIN calls : ~calls[i].raised)
    => /\ Len(calls) = 1
       /\ calls[1].workingdir = <<Self.path>>
       /\ result = (IF calls[1].ret = 0 THEN "True" ELSE "False")
       /\ (op.name = "checkout" /\ op.branch # <<>>)
             => calls[1].cmd = [words |-> <<"git", "checkout", "%s">>, subst |-> op.branch]

-----------------------------------------------------------------------------
(* C4 *)

\* C4: dirty is set from the two outputs as (status not blank) or (log not
\* blank).  A derivation leaves the status query for the bare query exactly
\* when the status output is not blank, with dirty true; it leaves the log
\* query, which it reaches only on a blank status output, with dirty true
\* exactly when the log output is not blank; and the last step, which ends the
\* derivation, leaves dirty as it is
C4_Dirty ==
    [][/\ (pc = "status" /\ pc' = "bare")
            => ~Blank(return_buffer') /\ Self'.dirty = TRUE
       /\ (pc = "status" /\ pc' = "log") => Blank(return_buffer')
       /\ (pc = "log" /\ pc' = "bare")
            => Blank(return_buffer) /\ Self'.dirty = ~Blank(return_buffer')
       /\ (pc = "bare" /\ repo' # None) => Self'.dirty = Self.dirty
       /\ (pc = "status" /\ ~Raised(result')) => pc' \in {"bare", "log"}
       /\ (pc = "log" /\ ~Raised(result')) => pc' = "bare"]_vars

\* C4 witness: the status output was blank, the log output is not, and dirty
\* is true
C4_Witness ==
    /\ pc = "bare"
    /\ IsLogQuery(calls[Len(calls)])
    /\ ~Blank(return_buffer)
    /\ Self.dirty

-----------------------------------------------------------------------------
(* C5 *)

\* C5: the log query is issued only as the query next after the status query
\* of the same derivation, and only when the status output was blank
C5_ShortCircuit ==
    [][(Len(calls') = Len(calls) + 1 /\ IsLogQuery(calls'[Len(calls')]))
          => /\ calls # <<>>
             /\ IsStatusQuery(calls[Len(calls)])
             /\ ~calls[Len(calls)].raised
             /\ Blank(return_buffer)]_vars

\* C5 witness: the status output was not blank and the derivation has gone by
\* the log query: it has issued the bare query right after the status query
C5_Witness ==
    /\ Completed
    /\ Len(calls) >= 2
    /\ IsBareQuery(calls[Len(calls)])
    /\ IsStatusQuery(calls[Len(calls) - 1])
    /\ Self.dirty

-----------------------------------------------------------------------------
(* C6 *)

\* _get_remotes has returned in the running or last derivation
RemotesDone ==
    /\ Derives(op)
    /\ repo # None
    /\ \/ pc \in {"head", "status", "log", "bare"}
       \/ Completed
       \/ pc = "idle" /\ Raised(result) /\ Len(DerivCalls) > 2 + Len(remote_list)

\* the names of a list that do not start with an underscore, in list order
RECURSIVE Public(_)
Public(names) ==
    IF names = <<>> THEN <<>>
    ELSE IF Len(names[1]) > 0 /\ names[1][1] = "_"
         THEN Public(Tail(names))
         ELSE <<names[1]>> \o Public(Tail(names))

\* the lines of a text: its pieces between the newlines
RECURSIVE Lines(_, _)
Lines(text, line) ==
    IF text = <<>> THEN <<line>>
    ELSE IF Head(text) = "\n" THEN <<line>> \o Lines(Tail(text), <<>>)
    ELSE Lines(Tail(text), Append(line, Head(text)))

\* a text without its leading and trailing whitespace
Trimmed(text) ==
    IF Blank(text) THEN <<>>
    ELSE LET a == CHOOSE i \in DOMAIN text :
                      ~Blank(<<text[i]>>) /\ \A j \in 1..(i - 1) : Blank(<<text[j]>>)
             b == CHOOSE i \in DOMAIN text :
                      ~Blank(<<text[i]>>) /\ \A j \in (i + 1)..Len(text) : Blank(<<text[j]>>)
         IN SubSeq(text, a, b)

\* what C6 says of the enumeration but for the declared names: the names are
\* the lines of the trimmed output of `git remote`; one url lookup is issued
\* per name, in list order, right after `git remote`; the entry set for a name
\* holds as url the trimmed output of the lookup issued for it; and the bag
\* has exactly one entry per name
C6_Enumeration ==
    /\ [](RemotesDone =>
            /\ DOMAIN Self.remotes.attrs = {remote_list[i] : i \in DOMAIN remote_list}
            /\ Cardinality(DOMAIN Self.remotes.attrs) = Len(remote_list)
            /\ IsRemoteQuery(DerivCalls[2])
            /\ \A i \in DOMAIN remote_list : IsUrlQuery(DerivCalls[2 + i], remote_list[i])
            /\ \A i \in DOMAIN DerivCalls :
                  HasWord(DerivCalls[i], "config") => i \in 3..(2 + Len(remote_list)))
    /\ [][/\ (pc = "remote" /\ pc' = "url")
               => remote_list' = Lines(Trimmed(return_buffer'), <<>>)
          /\ (pc = "url" /\ pc' \in {"url", "head"})
               => LET entry == new_remotes'.attrs[remote_list[idx]] IN
                  /\ DOMAIN entry.attrs = {<<"u", "r", "l">>}
                  /\ entry.attrs[<<"u", "r", "l">>] = Trimmed(return_buffer')
                  /\ \A n \in DOMAIN new_remotes.attrs \ {remote_list[idx]} :
                        new_remotes'.attrs[n] = new_remotes.attrs[n]
                  /\ remote_list' = remote_list
          /\ (pc = "url" /\ pc' = "head") => Self'.remotes = new_remotes'
          /\ (pc \in {"head", "status", "log", "bare"} /\ repo' # None)
               => Self'.remotes = Self.remotes /\ remote_list' = remote_list]_vars

\* C6 as claimed: the enumeration as above, and the declared names of the bag
\* are the listed names n1..nk, in that order and without duplicates
C6_Original ==
    RemotesDone =>
        /\ DOMAIN Self.remotes.attrs = {remote_list[i] : i \in DOMAIN remote_list}
        /\ \A i \in DOMAIN remote_list : IsUrlQuery(DerivCalls[2 + i], remote_list[i])
        /\ Self.remotes.values = remote_list

\* C6 amended: the enumeration as above, and the declared names of the bag
\* are, in list order and without duplicates, those of the listed names that
\* do not start with an underscore: a name that starts with one has its url
\* lookup and its entry, and is not declared
C6_Amended ==
    /\ C6_Enumeration
    /\ [](RemotesDone =>
            /\ Self.remotes.values = Public(remote_list)
            /\ \A i, j \in DOMAIN Self.remotes.values :
                  Self.remotes.values[i] = Self.remotes.values[j] => i = j)

\* C6 witness: two remotes are listed, the second of them with an underscore
\* first; both have their lookup and their entry, the first alone is declared
C6_Witness ==
    /\ Completed
    /\ remote_list = <<<<"o">>, <<"_", "x">>>>
    /\ DOMAIN Self.remotes.attrs = {<<"o">>, <<"_", "x">>}
    /\ Self.remotes.attrs[<<"_", "x">>].attrs[<<"u", "r", "l">>] = <<"u">>
    /\ Self.remotes.values = <<<<"o">>>>

-----------------------------------------------------------------------------
(* C7 *)

\* C7: clone_from issues its clone first and once, with no working directory:
\* `git clone` with --recurse-submodules, with --depth 1 and
\* --shallow-submodules exactly when shallow is set, of url into to_path;
\* every query after it runs in to_path; and the handle it returns is rooted
\* at to_path and derived there: populated by the queries when to_path is a
\* directory, at its defaults with no query issued when it is none
C7_CloneFrom ==
    op.name = "clone_from" =>
        /\ Len(calls) >= 1
        /\ SubSeq(calls[1].cmd.words, 1, 2) = <<"git", "clone">>
        /\ calls[1].cmd.subst = <<op.url, op.to_path>>
        /\ calls[1].workingdir = <<>>
        /\ HasWord(calls[1], "--recurse-submodules")
        /\ HasWords(calls[1], "--depth", "1") <=> op.shallow
        /\ HasWord(calls[1], "--shallow-submodules") <=> op.shallow
        /\ \A i \in 2..Len(calls) :
              /\ ~HasWord(calls[i], "clone")
              /\ calls[i].workingdir = <<op.to_path>>
        /\ repo # <<>> => Self.path = op.to_path
        /\ (pc = "idle" /\ ~Raised(result))
              => /\ result = "Repo"
                 /\ repo # <<>>
                 /\ IF Len(calls) > 1
                    THEN /\ Self.exists
                         /\ Self.active_branch # <<>>
                         /\ Self.head # <<>>
                         /\ IsBareQuery(calls[Len(calls)])
                    ELSE ~Self.exists /\ HoldsDefaults(Self)

\* C7 witness: a shallow clone_from has returned a handle derived by queries
\* in to_path
C7_Witness ==
    /\ pc = "idle"
    /\ op.name = "clone_from"
    /\ op.shallow
    /\ result = "Repo"
    /\ Len(calls) > 1
    /\ calls[1].ret = 0
    /\ Self.exists
    /\ Self.path = op.to_path

-----------------------------------------------------------------------------
(* C8 *)

\* C8 as claimed: a handle at rest with exists = true has been through a
\* derivation that ran to its end, so that its derived fields are all set
\* (none of active_branch, head and remotes is as constructed); and exists,
\* once true, stays true
C8_Original ==
    /\ []((pc = "idle" /\ repo # <<>> /\ Self.exists)
            => /\ Self.active_branch # <<>>
               /\ Self.head # <<>>
               /\ DOMAIN Self.remotes.attrs # {})
    /\ [][(repo # <<>> /\ repo' # <<>> /\ Self.exists /\ op'.name \notin {"init", "clone_from"})
            => Self'.exists]_vars

-----------------------------------------------------------------------------
(* C9 *)

\* C9 as claimed: fetch, pull, checkout and submodule leave every field of
\* the handle as it was, whatever the exit code; and the instance clone
\* refreshes the handle: it issues its clone and goes through the derivation
C9_Original ==
    /\ [][op'.name \in {"fetch", "pull", "checkout", "submodule"} => repo' = repo]_vars
    /\ [](op.name = "clone" => ~Raised(result) /\ calls # <<>>)

-----------------------------------------------------------------------------
(* C10 *)

\* the i-th query of a derivation that lists the names, the log query being
\* issued or not
InOrder(c, i, names, withLog) ==
    LET k == Len(names) IN
    IF i = 1 THEN IsBranchQuery(c)
    ELSE IF i = 2 THEN IsRemoteQuery(c)
    ELSE IF i <= 2 + k THEN IsUrlQuery(c, names[i - 2])
    ELSE IF i = 3 + k THEN IsHeadQuery(c)
    ELSE IF i = 4 + k THEN IsStatusQuery(c)
    ELSE IF i = 5 + k THEN (IF withLog THEN IsLogQuery(c) ELSE IsBareQuery(c))
    ELSE i = 6 + k /\ withLog /\ IsBareQuery(c)

\* C10: the queries of a derivation are issued in the one order branch,
\* remote list, one url lookup per listed name, head, status, log (or not),
\* bare, each in the directory of the handle; the log query is there exactly
\* when the status output was blank; and a derivation that has run to its end
\* over k listed names has issued 5 + k queries when the status output was not
\* blank and 6 + k when it was, the last of them the bare query
C10_Order ==
    Derives(op) =>
        LET d == DerivCalls
            k == Len(remote_list)
        IN
        /\ \A i \in DOMAIN d : d[i].workingdir = <<OpPath>>
        /\ \E withLog \in BOOLEAN : \A i \in DOMAIN d : InOrder(d[i], i, remote_list, withLog)
        /\ Len(d) > 2 => k >= 1
        /\ pc = "log" => Len(d) = 4 + k /\ Blank(return_buffer)
        /\ pc = "bare" => \/ Len(d) = 4 + k /\ ~Blank(return_buffer)
                          \/ Len(d) = 5 + k /\ IsLogQuery(d[5 + k])
        /\ Completed => /\ Len(d) \in {5 + k, 6 + k}
                        /\ IsBareQuery(d[Len(d)])
                        /\ Len(d) = 6 + k <=> IsLogQuery(d[Len(d) - 1])

\* C10 witness: a derivation over two listed names has run to its end with
\* the log query issued: 8 queries
C10_Witness ==
    /\ Completed
    /\ op.name = "refresh"
    /\ Len(remote_list) = 2
    /\ Len(calls) = 8
    /\ IsLogQuery(calls[7])
    /\ Self.initalized

====
